---- MODULE Spec2Model ----
(***************************************************************************)
(* Model of the circuit canvas of src/main.py: components dropped from the *)
(* palette (SimulationWindow.dropEvent), dragged and released              *)
(* (CircuitComponent.mouseReleaseEvent), and the connection resolver       *)
(* (SimulationScene.check_connections / add_connection_line).              *)
(*                                                                         *)
(* Every handler runs to completion on the single GUI thread, so each      *)
(* handler is one action.  A drag is modelled by its outcome: the raw      *)
(* position the item has when the button is released.                      *)
(***************************************************************************)
EXTENDS Integers, Sequences, FiniteSets, Bags

\* ---------------------------------------------------------------- bounds
\* How many qubits / gates are dropped from the palette in one run.
MaxQubits == 2
MaxGates == 2

\* ------------------------------------------------------ program constants
TYPE_QUBIT == 0
TYPE_GATE == 1
\* SimulationWindow.scale, handed to every component as grid_size.
GRID == 24
\* Size of the component pixmaps (QPixmap(f"{component_name}.png")).
PixmapWidth == 48
PixmapHeight == 48

\* Python's None.
None == 0

\* Raw pointer coordinates of drops and releases (scene coordinates), picked
\* around the cell boundaries and the 8-cell threshold:
\*   <<204, 0>>    8.5 cells: round-half-to-even gives 8 cells = 192, which
\*                 is exactly 8 * GRID away from the origin;
\*   <<220, -13>>  snaps to <<216, -24>>, 10 cells away from the origin and
\*                 2 cells away from <<192, 0>>.
RawPositions == {<<0, 0>>, <<204, 0>>, <<220, -13>>}

\* Component identities.  The palette hands out the ids of a type in drop
\* order: the k-th qubit dropped is k, the k-th gate dropped MaxQubits + k.
QubitIds == 1 .. MaxQubits
GateIds == (MaxQubits + 1) .. (MaxQubits + MaxGates)

VARIABLES
    component_type,   \* component -> TYPE_QUBIT | TYPE_GATE, for every component created
    position,         \* component -> <<x, y>>  (QGraphicsItem.pos())
    connected_prev,   \* component -> component | None
    connected_next,   \* component -> component | None
    items,            \* the components on the scene
    lines,            \* bag of the connection lines on the scene
    event             \* the event handled last and the qubit its scan matched

vars == <<component_type, position, connected_prev, connected_next, items, lines, event>>

\* Every component ever created (a removed component lives on as an object
\* while a link or a line still refers to it).
Components == DOMAIN component_type
Qubits == {c \in Components : component_type[c] = TYPE_QUBIT}
Gates == {c \in Components : component_type[c] = TYPE_GATE}

\* ------------------------------------------------------------ arithmetic
Abs(n) == IF n < 0 THEN -n ELSE n

\* Python round(n / d) for integers n, d > 0: round half to even.
PyRound(n, d) ==
    LET q == n \div d
        r == n % d
    IN  IF 2 * r < d THEN q
        ELSE IF 2 * r > d THEN q + 1
        ELSE IF q % 2 = 0 THEN q ELSE q + 1

\* Faulty variant of SnapNearest: the release leaves the raw position.
SnapNearestSkipped(p) == p

\* Faulty variant of SnapNearest: snaps to the centre of the nearest cell.
SnapNearestCentred(p) ==
    <<PyRound(p[1], GRID) * GRID + GRID \div 2, PyRound(p[2], GRID) * GRID + GRID \div 2>>

\* mouseReleaseEvent: round(p / grid_size) * grid_size per axis.
SnapNearest(p) == <<PyRound(p[1], GRID) * GRID, PyRound(p[2], GRID) * GRID>>

\* Faulty variant of SnapFloor: the remainder truncates toward zero (C's fmod).
SnapFloorTruncating(p) ==
    LET rem(n) == IF n < 0 THEN -((-n) % GRID) ELSE n % GRID
    IN  <<p[1] - rem(p[1]), p[2] - rem(p[2])>>

\* dropEvent: p - (p % scale) per axis (Python % has the divisor's sign).
SnapFloor(p) == <<p[1] - (p[1] % GRID), p[2] - (p[2] % GRID)>>

\* (a - b).manhattanLength()
ManhattanLength(a, b) == Abs(a[1] - b[1]) + Abs(a[2] - b[2])

\* Faulty variant of InRange: the threshold itself is out of range.
InRangeStrict(distance) == distance < GRID * 8

\* Faulty variant of InRange: a threshold of ten cells.
InRangeWide(distance) == distance <= GRID * 10

\* check_connections: distance <= component.grid_size * 8
InRange(distance) == distance <= GRID * 8

\* Faulty variant of AlignedPos: the offset is six pixels, not six cells.
AlignedPosPixels(qpos) == <<qpos[1] + 6, qpos[2]>>

\* check_connections: component.setPos(item.x() + grid_size * 6, item.y())
AlignedPos(qpos) == <<qpos[1] + GRID * 6, qpos[2]>>

\* ----------------------------------------------------------------- scene
\* Faulty variant of SceneItems: bottom-most (first added) first.
RECURSIVE SceneItemsAscending(_)
SceneItemsAscending(its) ==
    IF its = {} THEN <<>>
    ELSE LET bottom == CHOOSE c \in its : \A d \in its : c <= d
         IN  <<bottom>> \o SceneItemsAscending(its \ {bottom})

\* QGraphicsScene.items(): the items in stacking order, topmost (last added)
\* first.  The scan of check_connections skips everything but qubits, and the
\* qubits' ids follow their drop order, so the order is given as the
\* components on the scene by descending id.
RECURSIVE SceneItems(_)
SceneItems(its) ==
    IF its = {} THEN <<>>
    ELSE LET top == CHOOSE c \in its : \A d \in its : d <= c
         IN  <<top>> \o SceneItems(its \ {top})

\* Faulty variant of RemoveItem: the item stays on the scene.
RemoveItemSkipped(its, item) == its

\* QGraphicsScene.removeItem(item); removing None or an item that is not on
\* the scene only prints a warning.
RemoveItem(its, item) == its \ {item}

\* The line add_connection_line builds.  y1 and y2 are kept in half pixels
\* (twice the coordinate) so that height / 2 stays exact.
NewLine(qubit, gate, pos) ==
    [qubit |-> qubit, gate |-> gate,
     x1 |-> pos[qubit][1] + PixmapWidth,
     y1 |-> 2 * pos[qubit][2] + PixmapHeight,
     x2 |-> pos[gate][1],
     y2 |-> 2 * pos[gate][2] + PixmapHeight]

\* Faulty variant of RemoveLines: the old lines of the pair stay.
RemoveLinesSkipped(ls, qubit, gate) == ls

\* add_connection_line, first loop: remove the lines tagged (qubit, gate).
RemoveLines(ls, qubit, gate) ==
    LET keep == {l \in DOMAIN ls : ~(l.qubit = qubit /\ l.gate = gate)}
    IN  [l \in keep |-> ls[l]]

\* add_connection_line(qubit, gate) with the positions pos.
AddConnectionLine(ls, qubit, gate, pos) ==
    RemoveLines(ls, qubit, gate) (+) SetToBag({NewLine(qubit, gate, pos)})

\* Faulty variant of Scan: the type of the scanned item is not looked at.
RECURSIVE ScanAnyType(_, _, _)
ScanAnyType(its, component, cpos) ==
    IF its = <<>> THEN None
    ELSE LET item == Head(its)
         IN  IF /\ item # component
                /\ InRange(ManhattanLength(cpos, position[item]))
             THEN item
             ELSE ScanAnyType(Tail(its), component, cpos)

\* check_connections, the scan: the first item of the scene's order that is
\* another component, a qubit, and within range of the component at cpos.
RECURSIVE Scan(_, _, _)
Scan(its, component, cpos) ==
    IF its = <<>> THEN None
    ELSE LET item == Head(its)
         IN  IF /\ item # component
                /\ component_type[item] = TYPE_QUBIT
                /\ InRange(ManhattanLength(cpos, position[item]))
             THEN item
             ELSE Scan(Tail(its), component, cpos)

\* Faulty variant of Match: a released qubit is scanned for as well.
MatchAnyType(component, cpos) ==
    LET its == SceneItems(items)
        first == {i \in DOMAIN its :
                    /\ its[i] # component
                    /\ component_type[its[i]] = TYPE_QUBIT
                    /\ InRange(ManhattanLength(cpos, position[its[i]]))}
    IN  IF first = {} THEN None
        ELSE its[CHOOSE i \in first : \A j \in first : i <= j]

\* check_connections: the qubit the released component binds to, or None.
Match(component, cpos) ==
    IF component_type[component] = TYPE_QUBIT THEN None
    ELSE Scan(SceneItems(items), component, cpos)

\* ------------------------------------------------------------------ init
Init ==
    /\ component_type = <<>>
    /\ position = <<>>
    /\ connected_prev = <<>>
    /\ connected_next = <<>>
    /\ items = {}
    /\ lines = EmptyBag
    /\ event = [kind |-> "init", comp |-> None, raw |-> <<0, 0>>, match |-> None]

\* Faulty variant of ReplacedItem: the comparison of line 150 inverted.
ReplacedItemInverted(item, component) ==
    IF connected_next[item] = component THEN connected_next[item] ELSE None

\* Faulty variant of ReplacedItem: the comparison of line 150 left out.
ReplacedItemAlways(item, component) == connected_next[item]

\* check_connections: what "if item.connected_next != component:
\* self.removeItem(item.connected_next)" removes (None: nothing).
ReplacedItem(item, component) ==
    IF connected_next[item] # component THEN connected_next[item] ELSE None

\* f extended by item |-> v.
Extend(f, item, v) == [c \in DOMAIN f \cup {item} |-> IF c = item THEN v ELSE f[c]]

\* --------------------------------------------------------------- actions
\* Faulty variant of DropEvent: the drop resolves connections like a release.
DropEventResolving(t, raw) ==
    LET pool == IF t = TYPE_QUBIT THEN QubitIds ELSE GateIds
        free == pool \ Components
    IN  /\ free # {}
        /\ LET item == CHOOSE c \in free : \A d \in free : c <= d
               q == IF t = TYPE_QUBIT THEN None
                    ELSE Scan(SceneItems(items), item, SnapFloor(raw))
           IN  /\ component_type' = Extend(component_type, item, t)
               /\ event' = [kind |-> "drop", comp |-> item, raw |-> raw, match |-> None]
               /\ IF q = None
                  THEN /\ position' = Extend(position, item, SnapFloor(raw))
                       /\ connected_prev' = Extend(connected_prev, item, None)
                       /\ connected_next' = Extend(connected_next, item, None)
                       /\ items' = items \cup {item}
                       /\ UNCHANGED lines
                  ELSE /\ position' = Extend(position, item, AlignedPos(position[q]))
                       /\ connected_prev' = Extend(connected_prev, item, q)
                       /\ connected_next' =
                            Extend([connected_next EXCEPT ![q] = item], item, None)
                       /\ items' = RemoveItem(items, connected_next[q]) \cup {item}
                       /\ lines' = AddConnectionLine(lines, q, item, position')

\* SimulationWindow.dropEvent with a palette payload of type t at raw.
DropEvent(t, raw) ==
    LET pool == IF t = TYPE_QUBIT THEN QubitIds ELSE GateIds
        free == pool \ Components
    IN  /\ free # {}
        /\ LET item == CHOOSE c \in free : \A d \in free : c <= d
           IN  /\ component_type' = Extend(component_type, item, t)
               /\ position' = Extend(position, item, SnapFloor(raw))
               /\ connected_prev' = Extend(connected_prev, item, None)
               /\ connected_next' = Extend(connected_next, item, None)
               /\ items' = items \cup {item}
               /\ event' = [kind |-> "drop", comp |-> item, raw |-> raw, match |-> None]
        /\ UNCHANGED lines

\* CircuitComponent.mouseReleaseEvent of component c, dragged to raw.
MouseReleaseEvent(c, raw) ==
    LET snapped == SnapNearest(raw)
        item == Match(c, snapped)
    IN  /\ event' = [kind |-> "release", comp |-> c, raw |-> raw, match |-> item]
        /\ UNCHANGED component_type
        /\ IF item = None
           THEN /\ position' = [position EXCEPT ![c] = snapped]
                /\ UNCHANGED <<connected_prev, connected_next, items, lines>>
           ELSE /\ items' = RemoveItem(items, ReplacedItem(item, c))
                /\ position' = [position EXCEPT ![c] = AlignedPos(position[item])]
                /\ connected_prev' = [connected_prev EXCEPT ![c] = item]
                /\ connected_next' = [connected_next EXCEPT ![item] = c]
                /\ lines' = AddConnectionLine(lines, item, c, position')

Drop == \E t \in {TYPE_QUBIT, TYPE_GATE}, raw \in RawPositions : DropEvent(t, raw)

\* A release after a drag to one of the raw positions, or without moving.
Release ==
    \E c \in items :
        \E raw \in RawPositions \cup {position[c]} : MouseReleaseEvent(c, raw)

Next == Drop \/ Release

Spec == Init /\ [][Next]_vars

\* ------------------------------------------------- the two snap policies
\* Raw pointer coordinates for the snap policies alone: every x from
\* -MaxRawLeft to MaxRawRight (cell boundaries, the half cells 12 and 36 and
\* negative coordinates among them) with a handful of y.
MaxRawLeft == 13
MaxRawRight == 37
SnapInputs == {<<x, y>> : x \in (0 - MaxRawLeft) .. MaxRawRight, y \in {-13, -5, 0, 5, 12, 36}}

\* One component is dropped anywhere, then dragged and released anywhere.
SnapDrop ==
    /\ Components = {}
    /\ \E t \in {TYPE_QUBIT, TYPE_GATE}, raw \in SnapInputs : DropEvent(t, raw)

SnapRelease ==
    \E c \in items :
        \E raw \in SnapInputs \cup {position[c]} : MouseReleaseEvent(c, raw)

SnapNext == SnapDrop \/ SnapRelease

SnapSpec == Init /\ [][SnapNext]_vars

\* ------------------------------------------------------------ properties
\* The lines on the scene, and how many of them carry the tag (qubit, gate).
Lines == BagToSet(lines)
LineCount(qubit, gate) ==
    LET tagged == {l \in DOMAIN lines : l.qubit = qubit /\ l.gate = gate}
    IN  BagCardinality([l \in tagged |-> lines[l]])

\* The step is a release that bound the released gate to qubit q.
Attached(q) == event'.kind = "release" /\ event'.match = q /\ q # None

\* The step is a release that bound a gate to q while q held another gate.
Evicting(q) ==
    /\ Attached(q)
    /\ connected_next[q] # None
    /\ connected_next[q] # event'.comp

\* C1: every qubit on the canvas whose connected_next is set has a gate as
\* connected_next whose connected_prev is that qubit.
C1_QubitSideSymmetry ==
    \A q \in Qubits \cap items :
        connected_next[q] # None =>
            /\ connected_next[q] \in Gates
            /\ connected_prev[connected_next[q]] = q

\* C2: every gate on the canvas whose connected_prev is set has a qubit as
\* connected_prev whose connected_next is that gate.
C2_GateSideSymmetry ==
    \A g \in Gates \cap items :
        connected_prev[g] # None =>
            /\ connected_prev[g] \in Qubits
            /\ connected_next[connected_prev[g]] = g

\* C2 witness: a gate on the canvas is bound to a qubit after it was bound
\* to another qubit, which still names it, and a gate has been evicted.
C2_Witness ==
    \E g \in Gates \cap items, q \in Qubits :
        /\ connected_prev[g] # None
        /\ connected_prev[g] # q
        /\ connected_next[q] = g
        /\ Gates \ items # {}

\* C3: for every qubit at most one gate on the canvas has it as
\* connected_prev, and a release that attaches a new gate to a qubit takes
\* the gate attached to it before off the canvas.
C3_OneGatePerQubit ==
    /\ [](\A q \in Qubits :
            Cardinality({g \in Gates \cap items : connected_prev[g] = q}) <= 1)
    /\ [][\A q \in Qubits :
            Attached(q) =>
                \A g \in Gates \cap items :
                    (connected_prev[g] = q /\ g # event'.comp) => g \notin items']_vars

\* C3 witness: the last release attached a gate to a qubit that had another
\* gate attached, which is now off the canvas.
C3_Witness ==
    /\ event.kind = "release"
    /\ event.match # None
    /\ connected_next[event.match] = event.comp
    /\ \E g \in Gates \ items : g # event.comp /\ connected_prev[g] = event.match

\* C4: when a release attaches a gate to a qubit Q whose connected_next is a
\* different gate G1, no line tagged (Q, G1) is on the canvas afterwards.
C4_EvictionRemovesOldLine ==
    [][\A q \in Qubits :
        Evicting(q) =>
            ~ \E l \in BagToSet(lines') :
                l.qubit = q /\ l.gate = connected_next[q]]_vars

\* C5: when a release attaches gate G2 to a qubit Q whose connected_next is a
\* different gate G1, afterwards G1.connected_prev is None and
\* Q.connected_next is G2.
C5_EvictionClearsOldLink ==
    [][\A q \in Qubits :
        Evicting(q) =>
            /\ connected_prev'[connected_next[q]] = None
            /\ connected_next'[q] = event'.comp]_vars

\* C6: every line on the canvas is tagged with an active binding: both ends
\* are on the canvas and name each other.
C6_NoStaleLines ==
    \A l \in Lines :
        /\ l.qubit \in items
        /\ l.gate \in items
        /\ connected_next[l.qubit] = l.gate
        /\ connected_prev[l.gate] = l.qubit

\* C7: for every qubit Q and gate G on the canvas that name each other,
\* exactly one line tagged (Q, G) is on the canvas.
C7_OneLinePerActivePair ==
    \A q \in Qubits \cap items, g \in Gates \cap items :
        (connected_next[q] = g /\ connected_prev[g] = q) => LineCount(q, g) = 1

\* C7 witness: a gate that already sat at the aligned position of its qubit
\* was released there again, and the pair has its one line.
C7_Witness ==
    /\ event.kind = "release"
    /\ event.match # None
    /\ event.raw = AlignedPos(position[event.match])
    /\ connected_prev[event.comp] = event.match
    /\ connected_next[event.match] = event.comp
    /\ LineCount(event.match, event.comp) = 1

\* C8: every line tagged (Q, G) starts at (Q.x + width, Q.y + height / 2) and
\* ends at (G.x, G.y + height / 2) for the current positions of Q and G.
C8_LineEndpointsTrackPositions ==
    \A l \in Lines : l = NewLine(l.qubit, l.gate, position)

\* C9: after every drop and release, both coordinates of every component on
\* the canvas are multiples of the grid cell size.
C9_GridAligned ==
    \A c \in items : position[c][1] % GRID = 0 /\ position[c][2] % GRID = 0

\* C9 witness: a gate released off the grid was bound, and sits six cells
\* to the right of its qubit.
C9_Witness ==
    /\ event.kind = "release"
    /\ event.match # None
    /\ event.raw[1] % GRID # 0
    /\ event.raw[2] % GRID # 0
    /\ position[event.comp] = <<position[event.match][1] + 6 * GRID, position[event.match][2]>>

\* C10: a release of a gate binds it to a qubit if and only if some qubit on
\* the canvas is at Manhattan distance <= 8 * GRID from the gate's position
\* after nearest-grid snapping; the qubit it binds to is one of those.
C10_AttachThreshold ==
    [][(event'.kind = "release" /\ event'.comp \in Gates) =>
        LET c == event'.comp
            s == SnapNearest(event'.raw)
            near == {q \in Qubits \cap items :
                        Abs(s[1] - position[q][1]) + Abs(s[2] - position[q][2]) <= 8 * GRID}
        IN  IF near = {}
            THEN /\ event'.match = None
                 /\ connected_prev'[c] = connected_prev[c]
            ELSE /\ event'.match \in near
                 /\ connected_prev'[c] = event'.match
                 /\ connected_next'[event'.match] = c]_vars

\* C10 witness: a gate was bound to a qubit exactly 8 cells from its snapped
\* position, released at a raw position more than 8 cells away.
C10_Witness ==
    /\ event.kind = "release"
    /\ event.match # None
    /\ ManhattanLength(SnapNearest(event.raw), position[event.match]) = 8 * GRID
    /\ ManhattanLength(event.raw, position[event.match]) > 8 * GRID

\* The step is a release of component c.
Released(c) == event'.kind = "release" /\ event'.comp = c

\* The qubits on the canvas within 8 cells of the point p.
QubitsNear(p) ==
    {q \in Qubits \cap items :
        Abs(p[1] - position[q][1]) + Abs(p[2] - position[q][2]) <= 8 * GRID}

\* The tags (qubit, gate) of the lines in the bag ls.
Tags(ls) == {<<l.qubit, l.gate>> : l \in BagToSet(ls)}

\* C11: right after a release that bound gate G to qubit Q, G sits at
\* (Q.x + 6 * GRID, Q.y), Q.connected_next = G and G.connected_prev = Q.
C11_AttachPostCondition ==
    (event.kind = "release" /\ event.match # None) =>
        /\ position[event.comp] =
             <<position[event.match][1] + 6 * GRID, position[event.match][2]>>
        /\ connected_next[event.match] = event.comp
        /\ connected_prev[event.comp] = event.match

\* C11 witness: the gate was bound, and the position it was given differs
\* from the snapped position of the release.
C11_Witness ==
    /\ event.kind = "release"
    /\ event.match # None
    /\ position[event.comp] # SnapNearest(event.raw)
    /\ position[event.comp] = <<position[event.match][1] + 6 * GRID, position[event.match][2]>>

\* C12: a release of a gate whose snapped position is more than 8 cells from
\* every qubit moves the gate to the snapped position and changes nothing
\* else: no line, no component on the canvas, no link.
C12_OutOfRangeRelease ==
    [][\A c \in Gates \cap items :
        (Released(c) /\ QubitsNear(SnapNearest(event'.raw)) = {}) =>
            /\ lines' = lines
            /\ items' = items
            /\ component_type' = component_type
            /\ connected_prev' = connected_prev
            /\ connected_next' = connected_next
            /\ position' = [position EXCEPT ![c] = SnapNearest(event'.raw)]]_vars

\* C12 witness: a gate that is linked to a qubit was released out of range of
\* every qubit and keeps its link.
C12_Witness ==
    /\ event.kind = "release"
    /\ event.comp \in Gates
    /\ event.match = None
    /\ QubitsNear(position[event.comp]) = {}
    /\ connected_prev[event.comp] # None
    /\ lines # EmptyBag

\* C13: a release of a qubit snaps that qubit's position and changes nothing
\* else, whatever gates lie within 8 cells of it.
C13_QubitReleaseNoOp ==
    [][\A c \in Qubits \cap items :
        Released(c) =>
            /\ lines' = lines
            /\ items' = items
            /\ component_type' = component_type
            /\ connected_prev' = connected_prev
            /\ connected_next' = connected_next
            /\ \A d \in Components \ {c} : position'[d] = position[d]
            /\ position'[c][1] % GRID = 0
            /\ position'[c][2] % GRID = 0
            /\ 2 * Abs(position'[c][1] - event'.raw[1]) <= GRID
            /\ 2 * Abs(position'[c][2] - event'.raw[2]) <= GRID]_vars

\* C13 witness: a qubit was released within 8 cells of a gate and of another
\* qubit on the canvas.
C13_Witness ==
    /\ event.kind = "release"
    /\ event.comp \in Qubits
    /\ \E g \in Gates \cap items :
          ManhattanLength(position[event.comp], position[g]) <= 8 * GRID
    /\ \E q \in (Qubits \cap items) \ {event.comp} :
          ManhattanLength(position[event.comp], position[q]) <= 8 * GRID

\* C14: a set connected_prev belongs to a gate and names a qubit, a set
\* connected_next belongs to a qubit and names a gate.
C14_LinkTyping ==
    \A c \in Components :
        /\ connected_prev[c] # None => (c \in Gates /\ connected_prev[c] \in Qubits)
        /\ connected_next[c] # None => (c \in Qubits /\ connected_next[c] \in Gates)

\* C14 witness: a gate was released within 8 cells of another gate and of a
\* qubit, and was bound.
C14_Witness ==
    /\ event.kind = "release"
    /\ event.match # None
    /\ connected_prev[event.comp] = event.match
    /\ \E g \in (Gates \cap items) \ {event.comp} :
          ManhattanLength(SnapNearest(event.raw), position[g]) <= 8 * GRID

\* C15: the release-time snap is idempotent: a component that was released,
\* and so sits at a snapped position, keeps that position when it is released
\* again where it is.
C15_NearestSnapIdempotent ==
    [][\A c \in items :
        (event.kind = "release" /\ event.comp = c /\ Released(c) /\ event'.raw = position[c])
            => position'[c] = position[c]]_vars

\* C15 witness: a component was released again at <<48, 48>>, a position only
\* the release of a half cell (36 = 1.5 cells, rounded to even) produces.
C15_Witness ==
    /\ event.kind = "release"
    /\ event.raw = <<48, 48>>
    /\ position[event.comp] = <<48, 48>>

\* C16: a component dropped at the raw position p is created at s with, per
\* axis, s <= p < s + GRID and s a multiple of GRID; a drop at (13, 5) gives
\* (0, 0).
C16_DropFloorSnap ==
    event.kind = "drop" =>
        LET p == event.raw
            s == position[event.comp]
        IN  /\ \A i \in {1, 2} : s[i] <= p[i] /\ p[i] < s[i] + GRID /\ s[i] % GRID = 0
            /\ p = <<13, 5>> => s = <<0, 0>>

\* C16 witness: a drop at negative coordinates lands in the cell below the
\* origin.
C16_Witness ==
    /\ event.kind = "drop"
    /\ event.raw = <<-13, -5>>
    /\ position[event.comp] = <<-24, -24>>

\* C17: when qubits are within 8 cells of a released gate, the gate is bound
\* to the one of them that comes first in the canvas's iteration order (the
\* one dropped last), no other qubit's link is touched, and the lines change
\* by exactly the one line of that pair being redrawn.
C17_FirstMatchOnly ==
    [][\A c \in Gates \cap items :
        LET near == QubitsNear(SnapNearest(event'.raw))
            first == CHOOSE q \in near : \A r \in near : r <= q
        IN  (Released(c) /\ near # {}) =>
                /\ event'.match = first
                /\ connected_prev'[c] = first
                /\ connected_next'[first] = c
                /\ \A q \in Qubits \ {first} : connected_next'[q] = connected_next[q]
                /\ \A l \in DOMAIN lines \cup DOMAIN lines' :
                      \/ l.qubit = first /\ l.gate = c
                      \/ CopiesIn(l, lines') = CopiesIn(l, lines)
                /\ BagCardinality([l \in {k \in DOMAIN lines' : k.qubit = first /\ k.gate = c}
                                      |-> lines'[l]]) = 1]_vars

\* C17 witness: the gate was bound to a qubit although another qubit in range
\* was nearer to the snapped release position.
C17_Witness ==
    /\ event.kind = "release"
    /\ event.match # None
    /\ connected_prev[event.comp] = event.match
    /\ \E q \in QubitsNear(SnapNearest(event.raw)) :
          ManhattanLength(SnapNearest(event.raw), position[q])
            < ManhattanLength(SnapNearest(event.raw), position[event.match])

\* C18: a drop adds exactly one component, with both links unset, and leaves
\* the position and links of every other component and the lines unchanged.
C18_DropIsLinkFree ==
    [][event'.kind = "drop" =>
        LET new == event'.comp
        IN  /\ new \notin Components
            /\ DOMAIN component_type' = Components \cup {new}
            /\ items' = items \cup {new}
            /\ connected_prev'[new] = None
            /\ connected_next'[new] = None
            /\ lines' = lines
            /\ \A c \in Components :
                  /\ component_type'[c] = component_type[c]
                  /\ position'[c] = position[c]
                  /\ connected_prev'[c] = connected_prev[c]
                  /\ connected_next'[c] = connected_next[c]]_vars

\* C18 witness: a gate was dropped within 8 cells of a qubit and is unlinked.
C18_Witness ==
    /\ event.kind = "drop"
    /\ event.comp \in Gates
    /\ QubitsNear(position[event.comp]) # {}
    /\ connected_prev[event.comp] = None
    /\ \A q \in Qubits : connected_next[q] # event.comp

\* C19: whenever a release takes a gate off the canvas, that gate's
\* connected_prev is the qubit the released gate was bound to.
C19_EvictionOnlyOfOwnGate ==
    [][\A g \in Gates \cap items :
        g \notin items' => (event'.match # None /\ connected_prev[g] = event'.match)]_vars

\* The release of the step leaves G's position, all links, the components and
\* the tags of the lines unchanged.
ReleaseChangedNothing ==
    /\ position' = position
    /\ connected_prev' = connected_prev
    /\ connected_next' = connected_next
    /\ component_type' = component_type
    /\ items' = items
    /\ Tags(lines') = Tags(lines)

\* The step releases, without moving it, gate c, which is bound to q and sits
\* six cells to the right of q, on a canvas with other qubits.
ReleasedInPlace(c, q) ==
    /\ Released(c)
    /\ event'.raw = position[c]
    /\ connected_prev[c] = q
    /\ connected_next[q] = c
    /\ position[c] = <<position[q][1] + 6 * GRID, position[q][2]>>
    /\ (Qubits \cap items) \ {q} # {}

\* C20 as stated: releasing an attached gate again without moving it changes
\* nothing, whatever other qubits are on the canvas.
C20_ReleaseIdempotent ==
    [][\A c \in Gates \cap items, q \in Qubits :
        ReleasedInPlace(c, q) => ReleaseChangedNothing]_vars

\* C20 amended: releasing an attached gate again without moving it changes
\* nothing, provided its qubit is the first in the canvas's iteration order
\* (the last dropped) among the qubits within 8 cells of the gate.
C20_ReleaseIdempotentWhenFirst ==
    [][\A c \in Gates \cap items, q \in Qubits :
        (ReleasedInPlace(c, q) /\ \A r \in QubitsNear(position[c]) : r <= q)
            => ReleaseChangedNothing]_vars

\* C20 witness: an attached gate was released in place and is still bound to
\* its qubit, with another qubit within 8 cells of it.
C20_Witness ==
    /\ event.kind = "release"
    /\ event.raw = position[event.comp]
    /\ event.match # None
    /\ connected_prev[event.comp] = event.match
    /\ connected_next[event.match] = event.comp
    /\ position[event.comp] = <<position[event.match][1] + 6 * GRID, position[event.match][2]>>
    /\ QubitsNear(position[event.comp]) \ {event.match} # {}

====
